---- MODULE Spec2Model ----
(***************************************************************************)
(* The Minesweeper knowledge-based agent of src/minesweeper.py:            *)
(* class Sentence, class MinesweeperAI and the board oracle                *)
(* Minesweeper.nearby_mines / is_mine.                                     *)
(*                                                                         *)
(* Cells are pairs <<i, j>> with 0-based coordinates, as in the source.    *)
(* A Sentence is a record [cells, count].  The knowledge base is the       *)
(* Python list self.knowledge, a sequence of Sentences.                    *)
(* Python's None is the empty tuple <<>>; an optional set is <<>> or <<S>>.*)
(***************************************************************************)
EXTENDS Integers, FiniteSets, Sequences, TLC

\* ---------------------------------------------------------------- bounds
\* Boards of every shape height x width with height * width <= MaxCells.
MaxCells == 6
\* At most MaxMines mines are placed on the board.
MaxMines == 2
\* The list self.knowledge holds at most MaxKB = MaxCells + KBSlack Sentences
\* in the model.  add_knowledge itself appends one Sentence per revealed cell
\* (fewer than MaxKB on every board used below); every further Sentence is
\* appended by infer_knowledge.  An append to a full list cuts the run (pc =
\* "overflow"): the Python list has no such limit and goes on growing.
KBSlack == 3
MaxKB == MaxCells + KBSlack

VARIABLES
    height,             \* MinesweeperAI.height (= Minesweeper.height)
    width,              \* MinesweeperAI.width  (= Minesweeper.width)
    board_mines,        \* Minesweeper.mines: the true mine placement
    moves_made,         \* MinesweeperAI.moves_made
    mines,              \* MinesweeperAI.mines
    safes,              \* MinesweeperAI.safes
    knowledge,          \* MinesweeperAI.knowledge
    pc,                 \* position inside the running add_knowledge call
    changed,            \* parameter / local `changed` of mark_cells, infer_knowledge
    subset_found,       \* local of infer_knowledge
    changed_sentences,  \* local of infer_knowledge
    i,                  \* index of sentence1 in the outer loop of infer_knowledge
    j,                  \* index of sentence2 in the inner loop of infer_knowledge
    last,               \* the agent operation called last
    arg,                \* arguments of the operation called last: <<cell, count>>,
                        \* <<cell>> or <<>>
    ret,                \* value returned by the last make_*_move (None or a cell)
    exc                 \* exception raised by the last operation ("none" if none)

vars == <<height, width, board_mines, moves_made, mines, safes, knowledge, pc,
          changed, subset_found, changed_sentences, i, j, last, arg, ret, exc>>

agent == <<moves_made, mines, safes, knowledge>>
locals == <<changed, subset_found, changed_sentences, i, j>>
board == <<height, width, board_mines>>

None == <<>>

\* ---------------------------------------------------------------- board
Cells == (0 .. height - 1) \X (0 .. width - 1)

\* range(cell[0] - 1, cell[0] + 2) x range(cell[1] - 1, cell[1] + 2)
Around(cell) == ((cell[1] - 1) .. (cell[1] + 1)) \X ((cell[2] - 1) .. (cell[2] + 1))

InBounds(c) == 0 <= c[1] /\ c[1] < height /\ 0 <= c[2] /\ c[2] < width

is_mine(cell) == cell \in board_mines

nearby_mines(cell) ==
    Cardinality({c \in Around(cell) : c # cell /\ InBounds(c) /\ is_mine(c)})

\* ---------------------------------------------------------------- Sentence
Sentence(cells, count) == [cells |-> cells, count |-> count]

known_mines(s) == IF Cardinality(s.cells) = s.count THEN <<s.cells>> ELSE None

known_safes(s) == IF s.count = 0 THEN <<s.cells>> ELSE None

\* Python truth value of an optional set: None and set() are both false.
Truthy(opt) == opt # None /\ opt[1] # {}

\* Sentence.mark_mine without the membership test: the count always drops.
Sentence_mark_mine_always_decrements(s, cell) ==
    [cells |-> s.cells \ {cell}, count |-> s.count - 1]

\* Sentence.mark_mine without `self.count -= 1`.
Sentence_mark_mine_keeps_count(s, cell) ==
    IF cell \in s.cells
    THEN [cells |-> s.cells \ {cell}, count |-> s.count]
    ELSE s

Sentence_mark_mine(s, cell) ==
    IF cell \in s.cells
    THEN [cells |-> s.cells \ {cell}, count |-> s.count - 1]
    ELSE s

\* Sentence.mark_safe written like mark_mine: the count is decremented too.
Sentence_mark_safe_decrements(s, cell) ==
    IF cell \in s.cells
    THEN [cells |-> s.cells \ {cell}, count |-> s.count - 1]
    ELSE s

Sentence_mark_safe(s, cell) ==
    IF cell \in s.cells
    THEN [cells |-> s.cells \ {cell}, count |-> s.count]
    ELSE s

\* ---------------------------------------------------------------- MinesweeperAI
\* The functions below act on a record st = [mines, safes, knowledge, changed].
\* mark_mine that records the cell but does not tell the Sentences
mark_mine_forgets_sentences(st, cell) ==
    [st EXCEPT !.mines = st.mines \cup {cell}]

mark_mine(st, cell) ==
    [st EXCEPT !.mines = st.mines \cup {cell},
               !.knowledge = [k \in 1 .. Len(st.knowledge) |->
                                Sentence_mark_mine(st.knowledge[k], cell)]]

\* mark_safe that broadcasts the cell but forgets self.safes.add(cell)
mark_safe_forgets_safes(st, cell) ==
    [st EXCEPT !.knowledge = [k \in 1 .. Len(st.knowledge) |->
                                Sentence_mark_safe(st.knowledge[k], cell)]]

mark_safe(st, cell) ==
    [st EXCEPT !.safes = st.safes \cup {cell},
               !.knowledge = [k \in 1 .. Len(st.knowledge) |->
                                Sentence_mark_safe(st.knowledge[k], cell)]]

\* for mine in fcheck_mines: self.mark_mine(mine)
RECURSIVE MarkMines(_, _)
MarkMines(st, cs) ==
    IF cs = {} THEN st
    ELSE LET c == CHOOSE x \in cs : TRUE IN MarkMines(mark_mine(st, c), cs \ {c})

\* for safe in fcheck_safes: self.mark_safe(safe)
RECURSIVE MarkSafes(_, _)
MarkSafes(st, cs) ==
    IF cs = {} THEN st
    ELSE LET c == CHOOSE x \in cs : TRUE IN MarkSafes(mark_safe(st, c), cs \ {c})

\* The body of `for sentence in self.knowledge` of mark_cells, for the
\* Sentence at index k: known_safes is asked after the mines were marked.
MarkCellsBody(st, k) ==
    LET check_mines == known_mines(st.knowledge[k])
        st1 == IF Truthy(check_mines)
               THEN [MarkMines(st, check_mines[1]) EXCEPT !.changed = TRUE]
               ELSE st
        check_safes == known_safes(st1.knowledge[k])
    IN  IF Truthy(check_safes)
        THEN [MarkSafes(st1, check_safes[1]) EXCEPT !.changed = TRUE]
        ELSE st1

RECURSIVE MarkCellsLoop(_, _)
MarkCellsLoop(st, k) ==
    IF k > Len(st.knowledge) THEN st
    ELSE MarkCellsLoop(MarkCellsBody(st, k), k + 1)

\* Remove changed sentences: list.remove deletes the first element equal by
\* value (Sentence.__eq__), guarded by `if sentence in self.knowledge`.
RemoveFirst(kb, s) ==
    IF \E k \in 1 .. Len(kb) : kb[k] = s
    THEN LET p == CHOOSE k \in 1 .. Len(kb) :
                      kb[k] = s /\ \A m \in 1 .. (k - 1) : kb[m] # s
         IN  SubSeq(kb, 1, p - 1) \o SubSeq(kb, p + 1, Len(kb))
    ELSE kb

RECURSIVE RemoveChanged(_, _)
RemoveChanged(kb, cs) ==
    IF cs = <<>> THEN kb
    ELSE RemoveChanged(RemoveFirst(kb, Head(cs)), Tail(cs))

\* The subset test with empty Sentences left out
IsSubsetPair_ignores_empty(s1, s2) ==
    s2 # s1 /\ s2.cells # {} /\ s2.cells \subseteq s1.cells

\* sentence2 != sentence1 and sentence2.cells.issubset(sentence1.cells)
IsSubsetPair(s1, s2) == s2 # s1 /\ s2.cells \subseteq s1.cells

\* Sentence(new_set, new_count) of infer_knowledge
Resolve(s1, s2) == Sentence(s1.cells \ s2.cells, s1.count - s2.count)

\* nearby_cells without the test `(i, j) in self.mines`
nearby_cells_keeps_mines(cell, mm, mi, sa) ==
    {c \in Around(cell) :
        /\ ~(c \in mm \/ c \in sa)
        /\ InBounds(c)}

\* nearby_cells of add_knowledge, read after moves_made.add and mark_safe
nearby_cells(cell, mm, mi, sa) ==
    {c \in Around(cell) :
        /\ ~(c \in mm \/ c \in mi \/ c \in sa)
        /\ InBounds(c)}

\* safe_list without the test `(i, j) not in self.moves_made`
safe_list_keeps_moves == {c \in Cells : c \in safes /\ c \notin mines}

safe_list == {c \in Cells : c \in safes /\ c \notin moves_made /\ c \notin mines}

\* random_list without the test `(i, j) not in self.mines`
random_list_keeps_mines == {c \in Cells : c \notin moves_made}

\* random_list without the test `(i, j) not in self.moves_made`
random_list_keeps_moves == {c \in Cells : c \notin mines}

random_list == {c \in Cells : c \notin moves_made /\ c \notin mines}

\* ---------------------------------------------------------------- initial state
Shapes == {hw \in (1 .. MaxCells) \X (1 .. MaxCells) : hw[1] * hw[2] <= MaxCells}

Placements(h, w) ==
    {m \in SUBSET ((0 .. h - 1) \X (0 .. w - 1)) : Cardinality(m) <= MaxMines}

Idle ==
    /\ pc = "idle"
    /\ changed = FALSE
    /\ subset_found = FALSE
    /\ changed_sentences = <<>>
    /\ i = 0
    /\ j = 0

\* A fresh agent MinesweeperAI(h, w) beside a board Minesweeper(h, w) whose
\* mines are the cells m.
InitBoard(h, w, m) ==
    /\ height = h
    /\ width = w
    /\ board_mines = m
    /\ moves_made = {}
    /\ mines = {}
    /\ safes = {}
    /\ knowledge = <<>>
    /\ Idle
    /\ last = "init"
    /\ arg = <<>>
    /\ ret = None
    /\ exc = "none"

Init == \E hw \in Shapes : \E m \in Placements(hw[1], hw[2]) : InitBoard(hw[1], hw[2], m)

\* ---------------------------------------------------------------- operations
\* make_safe_move that records the cell it returns as a move made
make_safe_move_records_move ==
    /\ pc = "idle"
    /\ IF safe_list # {}
       THEN \E c \in safe_list : ret' = c /\ moves_made' = moves_made \cup {c}
       ELSE ret' = None /\ moves_made' = moves_made
    /\ exc' = "none"
    /\ last' = "make_safe_move"
    /\ arg' = <<>>
    /\ UNCHANGED <<board, mines, safes, knowledge, pc, locals>>

make_safe_move ==
    /\ pc = "idle"
    /\ IF safe_list # {}
       THEN \E c \in safe_list : ret' = c
       ELSE ret' = None
    /\ exc' = "none"
    /\ last' = "make_safe_move"
    /\ arg' = <<>>
    /\ UNCHANGED <<board, agent, pc, locals>>

\* random.choice raises IndexError on an empty list.
make_random_move ==
    /\ pc = "idle"
    /\ IF random_list # {}
       THEN (\E c \in random_list : ret' = c) /\ exc' = "none"
       ELSE ret' = None /\ exc' = "IndexError"
    /\ last' = "make_random_move"
    /\ arg' = <<>>
    /\ UNCHANGED <<board, agent, pc, locals>>

\* add_knowledge that appends the new Sentence only when it has cells
add_knowledge_skips_empty(cell, count) ==
    /\ pc = "idle"
    /\ LET mm == moves_made \cup {cell}
           st == mark_safe([mines |-> mines, safes |-> safes,
                            knowledge |-> knowledge, changed |-> TRUE], cell)
           nc == nearby_cells(cell, mm, st.mines, st.safes)
       IN  /\ moves_made' = mm
           /\ mines' = st.mines
           /\ safes' = st.safes
           /\ knowledge' = IF nc = {} THEN st.knowledge
                           ELSE Append(st.knowledge, Sentence(nc, count))
    /\ pc' = "mark_cells"
    /\ changed' = TRUE
    /\ last' = "add_knowledge"
    /\ arg' = <<cell, count>>
    /\ ret' = None
    /\ exc' = "none"
    /\ UNCHANGED <<board, subset_found, changed_sentences, i, j>>

\* add_knowledge up to the call self.mark_cells(True)
add_knowledge(cell, count) ==
    /\ pc = "idle"
    /\ LET mm == moves_made \cup {cell}
           st == mark_safe([mines |-> mines, safes |-> safes,
                            knowledge |-> knowledge, changed |-> TRUE], cell)
       IN  /\ moves_made' = mm
           /\ mines' = st.mines
           /\ safes' = st.safes
           /\ knowledge' = Append(st.knowledge,
                                  Sentence(nearby_cells(cell, mm, st.mines, st.safes), count))
    /\ pc' = "mark_cells"
    /\ changed' = TRUE
    /\ last' = "add_knowledge"
    /\ arg' = <<cell, count>>
    /\ ret' = None
    /\ exc' = "none"
    /\ UNCHANGED <<board, subset_found, changed_sentences, i, j>>

\* The game loop: the cell is the one the agent's last move returned, it is
\* not a mine, and the count is the oracle's answer.
Reveal ==
    /\ ret # None
    /\ ~is_mine(ret)
    /\ add_knowledge(ret, nearby_mines(ret))

\* mark_cells(changed): one pass over self.knowledge, then infer_knowledge.
mark_cells ==
    /\ pc = "mark_cells"
    /\ IF ~changed
       THEN /\ pc' = "idle"
            /\ UNCHANGED <<agent, locals>>
       ELSE LET st == MarkCellsLoop([mines |-> mines, safes |-> safes,
                                     knowledge |-> knowledge, changed |-> FALSE], 1)
            IN  /\ mines' = st.mines
                /\ safes' = st.safes
                /\ knowledge' = st.knowledge
                /\ changed' = st.changed
                /\ pc' = "infer_knowledge"
                /\ UNCHANGED <<moves_made, subset_found, changed_sentences, i, j>>
    /\ UNCHANGED <<board, last, arg, ret, exc>>

\* infer_knowledge(changed): early return, or the locals are set up.
infer_knowledge ==
    /\ pc = "infer_knowledge"
    /\ IF ~changed
       THEN /\ pc' = "idle"
            /\ UNCHANGED locals
       ELSE /\ changed' = FALSE
            /\ subset_found' = FALSE
            /\ changed_sentences' = <<>>
            /\ i' = 1
            /\ j' = 1
            /\ pc' = "infer_loop"
    /\ UNCHANGED <<board, agent, last, arg, ret, exc>>

\* One iteration of `for sentence2 in self.knowledge`: the list is read at
\* index j of its current length, so appended Sentences are visited too.
infer_pair ==
    /\ pc = "infer_loop"
    /\ i <= Len(knowledge)
    /\ j <= Len(knowledge)
    /\ IF IsSubsetPair(knowledge[i], knowledge[j])
       THEN /\ subset_found' = TRUE
            /\ IF Len(knowledge) < MaxKB
               THEN /\ knowledge' = Append(knowledge, Resolve(knowledge[i], knowledge[j]))
                    /\ pc' = pc
               ELSE /\ knowledge' = knowledge
                    /\ pc' = "overflow"
       ELSE UNCHANGED <<subset_found, knowledge, pc>>
    /\ j' = j + 1
    /\ UNCHANGED <<board, moves_made, mines, safes, changed, changed_sentences, i,
                   last, arg, ret, exc>>

\* The inner loop is exhausted: `if subset_found`, then the next sentence1.
infer_next ==
    /\ pc = "infer_loop"
    /\ i <= Len(knowledge)
    /\ j > Len(knowledge)
    /\ IF subset_found
       THEN /\ changed_sentences' = Append(changed_sentences, knowledge[i])
            /\ changed' = TRUE
       ELSE UNCHANGED <<changed_sentences, changed>>
    /\ i' = i + 1
    /\ j' = 1
    /\ UNCHANGED <<board, agent, pc, subset_found, last, arg, ret, exc>>

\* The outer loop is exhausted: remove changed sentences, self.mark_cells(changed).
infer_done ==
    /\ pc = "infer_loop"
    /\ i > Len(knowledge)
    /\ knowledge' = RemoveChanged(knowledge, changed_sentences)
    /\ pc' = "mark_cells"
    /\ subset_found' = FALSE
    /\ changed_sentences' = <<>>
    /\ i' = 0
    /\ j' = 0
    /\ UNCHANGED <<board, moves_made, mines, safes, changed, last, arg, ret, exc>>

\* The steps of a running add_knowledge call.
Step == mark_cells \/ infer_knowledge \/ infer_pair \/ infer_next \/ infer_done

Next ==
    \/ make_safe_move
    \/ make_random_move
    \/ Reveal
    \/ mark_cells
    \/ infer_knowledge
    \/ infer_pair
    \/ infer_next
    \/ infer_done

Spec == Init /\ [][Next]_vars

\* One board: 1 row, 4 columns, the mine at (0,0).  A started call runs on.
InitRow == InitBoard(1, 4, {<<0, 0>>})

FairRow == InitRow /\ [][Next]_vars /\ WF_vars(Step)

\* One board: 2 rows, 5 columns, mines at (0,0), (0,1) and (0,4).
InitWide == InitBoard(2, 5, {<<0, 0>>, <<0, 1>>, <<0, 4>>})

SpecWide == InitWide /\ [][Next]_vars

\* One board: 3 rows, 3 columns, the only mine at (0,0).
InitSquare == InitBoard(3, 3, {<<0, 0>>})

SpecSquare == InitSquare /\ [][Next]_vars

\* A direct call infer_knowledge(True) on the agent.
call_infer_knowledge ==
    /\ pc = "idle"
    /\ pc' = "infer_knowledge"
    /\ changed' = TRUE
    /\ last' = "infer_knowledge"
    /\ arg' = <<>>
    /\ ret' = None
    /\ exc' = "none"
    /\ UNCHANGED <<board, agent, subset_found, changed_sentences, i, j>>

\* A direct call mark_cells(True) on the agent.
call_mark_cells ==
    /\ pc = "idle"
    /\ pc' = "mark_cells"
    /\ changed' = TRUE
    /\ last' = "mark_cells"
    /\ arg' = <<>>
    /\ ret' = None
    /\ exc' = "none"
    /\ UNCHANGED <<board, agent, subset_found, changed_sentences, i, j>>

\* The game, with the extraction phase run again between operations.
NextRerun == Next \/ call_mark_cells

SpecRerun == Init /\ [][NextRerun]_vars

\* A direct call mark_mine(cell) on the agent.
call_mark_mine(cell) ==
    /\ pc = "idle"
    /\ LET st == mark_mine([mines |-> mines, safes |-> safes,
                            knowledge |-> knowledge, changed |-> changed], cell)
       IN  /\ mines' = st.mines
           /\ knowledge' = st.knowledge
    /\ last' = "mark_mine"
    /\ arg' = <<cell>>
    /\ ret' = None
    /\ exc' = "none"
    /\ UNCHANGED <<board, moves_made, safes, pc, locals>>

\* A direct call mark_safe(cell) on the agent.
call_mark_safe(cell) ==
    /\ pc = "idle"
    /\ LET st == mark_safe([mines |-> mines, safes |-> safes,
                            knowledge |-> knowledge, changed |-> changed], cell)
       IN  /\ safes' = st.safes
           /\ knowledge' = st.knowledge
    /\ last' = "mark_safe"
    /\ arg' = <<cell>>
    /\ ret' = None
    /\ exc' = "none"
    /\ UNCHANGED <<board, moves_made, mines, pc, locals>>

\* The game, with the agent's marking operations called between operations.
NextMark ==
    \/ Next
    \/ \E cell \in Cells : call_mark_mine(cell)
    \/ \E cell \in Cells : call_mark_safe(cell)

\* One board: 2 rows, 2 columns, the mine at (0,0).
InitBlock == InitBoard(2, 2, {<<0, 0>>})

\* Either of the two boards of 4 cells.
InitMark == InitRow \/ InitBlock

SpecMark == InitMark /\ [][NextMark]_vars

\* The two Sentences A and B of a knowledge base with B.cells a subset of
\* A.cells, on a board of 1 row and 3 columns with the mine at (0,0).
PairA == Sentence({<<0, 0>>, <<0, 1>>, <<0, 2>>}, 1)

PairB == Sentence({<<0, 0>>, <<0, 1>>}, 1)

\* The Sentences of count 1 over the non-empty sets of cells of that board.
RowSentences ==
    {Sentence(cs, 1) : cs \in (SUBSET ({0} \X (0 .. 2))) \ {{}}}

\* A fresh agent whose knowledge base was set to two of these Sentences.
InitPair ==
    /\ height = 1
    /\ width = 3
    /\ board_mines = {<<0, 0>>}
    /\ moves_made = {}
    /\ mines = {}
    /\ safes = {}
    /\ knowledge \in {<<a, b>> : a \in RowSentences, b \in RowSentences}
    /\ Idle
    /\ last = "init"
    /\ arg = <<>>
    /\ ret = None
    /\ exc = "none"

\* The call and the steps it runs.
NextPair ==
    \/ call_infer_knowledge
    \/ mark_cells
    \/ infer_knowledge
    \/ infer_pair
    \/ infer_next
    \/ infer_done

FairPair == InitPair /\ [][NextPair]_vars /\ WF_vars(Step)

\* ---------------------------------------------------------------- claims

\* C1: every add_knowledge call terminates: a started call (pc # "idle")
\* leads to its return (pc = "idle").
C1_Terminates == (pc # "idle") ~> (pc = "idle")

\* C2: soundness of mines: once add_knowledge has returned, every cell of
\* the agent's mines set is a mine on the board.
C2_MinesSound == (pc = "idle") => (mines \subseteq board_mines)

\* C3: soundness of safes: once add_knowledge has returned, no cell of the
\* agent's safes set is a mine on the board.
C3_SafesSound == (pc = "idle") => (safes \cap board_mines = {})

\* C4: every Sentence of the knowledge base satisfies 0 <= count <= |cells|.
C4_WellFormed ==
    \A k \in 1 .. Len(knowledge) :
        /\ 0 <= knowledge[k].count
        /\ knowledge[k].count <= Cardinality(knowledge[k].cells)

\* C5: mines and safes are disjoint in every reachable state.
C5_Disjoint == mines \cap safes = {}

C5_Witness ==
    /\ pc = "idle"
    /\ last = "add_knowledge"
    /\ mines # {}
    /\ safes # {}

\* C6: between agent operations every cell of moves_made is in safes.
C6_MovesAreSafes == (pc = "idle") => (moves_made \subseteq safes)

C6_Witness ==
    /\ pc = "idle"
    /\ last = "make_random_move"
    /\ Cardinality(moves_made) >= 2
    /\ safes # moves_made

\* C7: when every board cell is in moves_made or mines, make_random_move
\* returns None and raises nothing.
C7_NoMoveIsNone ==
    (last = "make_random_move"
        /\ \A c \in Cells : c \in moves_made \/ c \in mines)
    => (ret = None /\ exc = "none")

\* C8: a cell returned by make_random_move is a board cell that is neither in
\* moves_made nor in mines, and every such cell can be returned.
C8_RandomMove ==
    /\ (last = "make_random_move" /\ ret # None)
       => (ret \in Cells /\ ret \notin moves_made /\ ret \notin mines)
    /\ (pc = "idle")
       => \A c \in Cells :
             (c \notin moves_made /\ c \notin mines)
             => ENABLED (make_random_move /\ ret' = c)

C8_Witness ==
    /\ last = "make_random_move"
    /\ ret # None
    /\ moves_made # {}
    /\ mines # {}

\* C9: make_safe_move returns None exactly when safes \ moves_made is empty;
\* a returned cell is in safes, not in moves_made and not in mines; every
\* cell of safes \ moves_made can be returned.
C9_SafeMove ==
    /\ (last = "make_safe_move")
       => /\ (ret = None) <=> (safes \ moves_made = {})
          /\ (ret # None)
             => (ret \in safes /\ ret \notin moves_made /\ ret \notin mines)
    /\ (pc = "idle")
       => \A c \in safes \ moves_made : ENABLED (make_safe_move /\ ret' = c)

C9_Witness ==
    /\ last = "make_safe_move"
    /\ ret # None
    /\ moves_made # {}
    /\ Cardinality(safes \ moves_made) >= 2

\* C10: a make_safe_move call (the step that sets last to "make_safe_move")
\* leaves moves_made, safes, mines and the knowledge base unchanged.
C10_SafeMoveReadOnly ==
    [][(last' = "make_safe_move")
        => UNCHANGED <<moves_made, safes, mines, knowledge>>]_vars

C10_Witness ==
    /\ last = "make_safe_move"
    /\ ret # None
    /\ mines # {}
    /\ \E k \in 1 .. Len(knowledge) : knowledge[k].cells # {}

\* C11: on the 3x3 board whose only mine is (0,0), a fresh agent given
\* add_knowledge((1,1),1) and then add_knowledge((0,1),1) ends with (0,0) in
\* mines.
C11_CornerMineFound ==
    (/\ pc = "idle"
     /\ last = "add_knowledge"
     /\ arg = <<(<<0, 1>>), 1>>
     /\ moves_made = {<<1, 1>>, <<0, 1>>})
    => (<<0, 0>> \in mines)

\* C11 (amended): in that run the agent deduces nothing about (0,0): from the
\* second call on (0,0) is neither in mines nor in safes, and the call
\* returns with mines empty.
C11_CornerUndecided ==
    (/\ last = "add_knowledge"
     /\ arg = <<(<<0, 1>>), 1>>
     /\ moves_made = {<<1, 1>>, <<0, 1>>})
    => /\ <<0, 0>> \notin mines
       /\ <<0, 0>> \notin safes
       /\ (pc = "idle") => (mines = {})

C11_Witness ==
    /\ pc = "idle"
    /\ last = "add_knowledge"
    /\ arg = <<(<<0, 1>>), 1>>
    /\ moves_made = {<<1, 1>>, <<0, 1>>}
    /\ Len(knowledge) = 2
    /\ knowledge[2] = Sentence({<<0, 0>>, <<0, 2>>, <<1, 0>>, <<1, 2>>}, 1)

\* C12: with the knowledge base holding exactly A = ({(0,0),(0,1),(0,2)},1)
\* and B = ({(0,0),(0,1)},1), a call infer_knowledge(True) completes, and at
\* its return (0,2) is in safes (the derived Sentence ({(0,2)},0) was
\* produced and extracted) and no Sentence equal to A is left.
C12_PairResolved ==
    (/\ pc = "infer_knowledge"
     /\ last = "infer_knowledge"
     /\ changed
     /\ knowledge \in {<<PairA, PairB>>, <<PairB, PairA>>})
    ~> (/\ pc = "idle"
        /\ <<0, 2>> \in safes
        /\ \A k \in 1 .. Len(knowledge) : knowledge[k] # PairA)

\* C13: at the fixpoint add_knowledge returned with, running mark_cells(True)
\* again changes nothing: from the call to its return moves_made, mines, safes
\* and the knowledge base (length, order, contents) stay as they were, and
\* the call goes through the extraction pass and the early return of
\* infer_knowledge only.
C13_RerunChangesNothing ==
    [][(last' = "mark_cells")
        => /\ UNCHANGED <<moves_made, mines, safes, knowledge>>
           /\ pc' \in {"mark_cells", "infer_knowledge", "idle"}]_vars

C13_Witness ==
    /\ pc = "idle"
    /\ last = "mark_cells"
    /\ mines # {}
    /\ Cardinality(safes) >= 2
    /\ \E k \in 1 .. Len(knowledge) : knowledge[k].cells # {}

\* C14: the agent's mark_mine(c) called twice in a row leaves mines and every
\* Sentence as they were after the first call (no count is decremented
\* again), and mark_safe(c) called twice in a row leaves safes and every
\* Sentence as they were after the first call.
C14_MarkTwice ==
    [][/\ (last = "mark_mine" /\ last' = "mark_mine" /\ arg' = arg)
          => UNCHANGED <<mines, knowledge>>
       /\ (last = "mark_safe" /\ last' = "mark_safe" /\ arg' = arg)
          => UNCHANGED <<safes, knowledge>>]_vars

C14_Witness ==
    /\ pc = "idle"
    /\ last = "mark_mine"
    /\ arg[1] \in mines
    /\ \E k \in 1 .. Len(knowledge) : knowledge[k].count < 0
    /\ ENABLED call_mark_mine(arg[1])

\* C15: Sentence.mark_mine(cell), as the agent's mark_mine applies it to
\* every Sentence: a Sentence holding the cell loses it and its count drops
\* by one; any other Sentence is unchanged.
C15_SentenceMarkMine ==
    [][(last' = "mark_mine")
        => /\ Len(knowledge') = Len(knowledge)
           /\ \A k \in 1 .. Len(knowledge) :
                 IF arg'[1] \in knowledge[k].cells
                 THEN /\ knowledge'[k].cells = knowledge[k].cells \ {arg'[1]}
                      /\ knowledge'[k].count = knowledge[k].count - 1
                 ELSE knowledge'[k] = knowledge[k]]_vars

C15_Witness ==
    /\ last = "mark_mine"
    /\ arg[1] \notin board_mines
    /\ \E k \in 1 .. Len(knowledge) :
          /\ knowledge[k].cells # {}
          /\ knowledge[k].count < 0

\* C16: Sentence.mark_safe(cell), as the agent's mark_safe applies it to
\* every Sentence: the cell is removed from cells (cells are unchanged when
\* it is absent) and the count stays as it was in both cases.
C16_SentenceMarkSafe ==
    [][(last' = "mark_safe")
        => /\ Len(knowledge') = Len(knowledge)
           /\ \A k \in 1 .. Len(knowledge) :
                 /\ knowledge'[k].cells = knowledge[k].cells \ {arg'[1]}
                 /\ knowledge'[k].count = knowledge[k].count]_vars

C16_Witness ==
    /\ last = "mark_safe"
    /\ arg[1] \notin moves_made
    /\ arg[1] \in safes
    /\ \E k \in 1 .. Len(knowledge) :
          /\ knowledge[k].cells # {}
          /\ knowledge[k].count = Cardinality(knowledge[k].cells)

\* C19: between agent operations (after mark_mine, mark_safe or add_knowledge
\* has completed) no Sentence of the knowledge base contains a cell that is
\* in mines or in safes.
C19_NoResolvedCells ==
    (pc = "idle")
    => \A k \in 1 .. Len(knowledge) :
          knowledge[k].cells \cap (mines \cup safes) = {}

C19_Witness ==
    /\ pc = "idle"
    /\ last \in {"mark_mine", "mark_safe", "add_knowledge"}
    /\ mines # {}
    /\ safes # {}
    /\ \E k \in 1 .. Len(knowledge) : Cardinality(knowledge[k].cells) >= 2

\* C17: the Sentence add_knowledge(cell, count) appends, before any inference
\* runs, has as cells the in-bounds 8-neighbours of cell, without cell itself
\* and without every cell of moves_made, mines or safes (read after cell
\* was added to moves_made and marked safe), and as count the count argument
\* as given, not reduced for the neighbours left out as known mines.
C17_NewSentence ==
    [][(pc = "idle" /\ pc' = "mark_cells" /\ last' = "add_knowledge")
        => /\ Len(knowledge') = Len(knowledge) + 1
           /\ knowledge'[Len(knowledge')].cells =
                 {c \in (0 .. height - 1) \X (0 .. width - 1) :
                     /\ c[1] - arg'[1][1] \in {-1, 0, 1}
                     /\ c[2] - arg'[1][2] \in {-1, 0, 1}
                     /\ c # arg'[1]
                     /\ c \notin moves_made'
                     /\ c \notin mines'
                     /\ c \notin safes'}
           /\ knowledge'[Len(knowledge')].count = arg'[2]
           /\ arg'[1] \in moves_made'
           /\ arg'[1] \in safes']_vars

C17_Witness ==
    /\ pc = "mark_cells"
    /\ last = "add_knowledge"
    /\ changed
    /\ \E m \in mines : m \in Around(arg[1])
    /\ knowledge[Len(knowledge)].cells # {}
    /\ knowledge[Len(knowledge)].count = arg[2]
    /\ arg[2] >= 1

\* C18: every add_knowledge call runs the resolution phase after the
\* extraction phase: when the extraction pass has ended and the knowledge
\* base holds two distinct Sentences A and B with B.cells a subset of
\* A.cells, the call goes on into the resolution loop (which derives
\* (A.cells \ B.cells, A.count - B.count)) instead of returning, also when
\* the extraction pass marked no cell.
C18_ResolutionRuns ==
    [][(/\ pc = "infer_knowledge"
        /\ last = "add_knowledge"
        /\ \E a, b \in 1 .. Len(knowledge) :
              /\ knowledge[a] # knowledge[b]
              /\ knowledge[b].cells \subseteq knowledge[a].cells)
        => (pc' = "infer_loop")]_vars

\* C20: whenever add_knowledge returns, the knowledge base is exactly one
\* Sentence longer than before the call (every call reveals a new cell, so
\* between operations there are as many Sentences as cells in moves_made);
\* no derived Sentence is present and no earlier Sentence was removed: a
\* resolution pass that completes has found no subset pair, has no Sentence
\* to remove and leaves the knowledge base as it was.
C20_OneSentencePerCall ==
    /\ [](pc = "idle" => Len(knowledge) = Cardinality(moves_made))
    /\ [][(pc = "infer_loop" /\ pc' = "mark_cells")
            => /\ ~subset_found
               /\ changed_sentences = <<>>
               /\ knowledge' = knowledge]_vars

C20_Witness ==
    /\ pc = "idle"
    /\ last = "add_knowledge"
    /\ Len(knowledge) >= 3
    /\ mines # {}
    /\ \E k \in 1 .. Len(knowledge) : knowledge[k].cells # {}

====
